---- MODULE Spec2Model ----
(***************************************************************************)
(* dumpster: netfilter drop-log watcher.  The model covers the pipeline    *)
(*   log file -> NetfilterLogReader -> Dumpster.handle_log_item            *)
(*            -> DumpsterDB (sqlite) and DumpsterRules (nftables sets).    *)
(* Time is counted in whole seconds.  The kernel (set element expiry), the *)
(* log writer and the operator (restart) are the environment.              *)
(***************************************************************************)
EXTENDS Integers, Sequences, FiniteSets, TLC

VARIABLES
    config,             \* Dumpster.repeat_period, repeat_count, timeout, bad_ip_threshold, scan_directions
    now,                \* time(), in seconds
    is_file,            \* reader -> its log file exists and is a regular file
    file,               \* reader -> the lines written to its log file so far
    tailer,             \* reader -> its watch_log task: "new", "open", or how it ended
    pos,                \* reader -> number of lines its open file handle has read
    log_items,          \* reader -> NetfilterLogReader.log_items (Queue)
    invalid_log_items,  \* reader -> NetfilterLogReader.invalid_log_items (Queue)
    policy_pc,          \* position of the process: constructor, Dumpster.run, handle_log_item
    rd,                 \* process_log_queue: index of the reader being drained
    boot,               \* Dumpster.__init__: the bad ips still to be passed to nft.block
    db,                 \* DumpsterDB: the tables as the connection sees them, and uncommitted_writes
    disk,               \* the tables as committed to the sqlite file
    started,            \* Dumpster._started
    primary,            \* kernel set dumpster_blackhole: ip -> element
    alt,                \* kernel set dumpster_blackhole_alt: ip -> element
    h,                  \* the frame of the current (or the last ended) handle_log_item call
    hist,               \* what happened in this run of the process (observation only)
    parser,             \* a line given to NetFilterLogLine by hand, and what came of it
    ruleset,            \* kernel: the tables, chains, set names and rules of the nft ruleset
    partial             \* reader -> the line whose first part only is in the file so far

vars == <<config, now, is_file, file, tailer, pos, log_items, invalid_log_items,
          policy_pc, rd, boot, db, disk, started, primary, alt, h, hist, parser,
          ruleset, partial>>

----------------------------------------------------------------------------
(* Bounds of the model *)

MaxEvents == 4          \* environment events in one behaviour: lines written, clock
                        \* steps and restarts together
MaxTailerEvents == 3    \* the same, when two log files are watched
StartTime == 1700000000 \* time() when the behaviour starts

IPs == {"1.2.3.4", "9.9.9.9"}
\* source and direction of the drops the kernel logs
LineKinds == {<<"1.2.3.4", "INBOUND">>, <<"1.2.3.4", "FORWARD">>, <<"9.9.9.9", "INBOUND">>}

----------------------------------------------------------------------------
(* Program constants *)

DEFAULT_REPEAT_PERIOD == 300
DEFAULT_TIMEOUT == 900

DEFAULT_SCAN_DIRECTIONS == {"INBOUND"}

\* add_set("dumpster_blackhole", timeout=15 * 60): the set's default element timeout
BLACKHOLE_SET_TIMEOUT == 15 * 60

\* blackhole(): timeout=e.expires + 15 * 60
BLACKHOLE_EXTENSION == 15 * 60

\* Values the configuration file gives: load_config overrides the defaults
\* (DEFAULT_REPEAT_COUNT = 3, DEFAULT_BAD_IP_THRESHOLD = 25) with them.
CONFIG_REPEAT_COUNT == 2
CONFIG_BAD_IP_THRESHOLD == 3
CONFIG_TIMEOUTS == {DEFAULT_TIMEOUT, 2 * DEFAULT_TIMEOUT}

\* config["log_files"]: the readers, in the order of the mapping
LOG_FILES == <<"wan">>
\* a configuration with two log files
TWO_LOG_FILES == <<"wan", "lan">>

\* The clock is observed in steps of a whole repeat period or a whole timeout.
TickSteps == {DEFAULT_REPEAT_PERIOD, DEFAULT_TIMEOUT}

Range(s) == {s[i] : i \in 1..Len(s)}

----------------------------------------------------------------------------
(* Log lines and the parser (nft_line.py).  A raw line is its text between *)
(* the surrounding whitespace (body) and that whitespace (pad: 0 for none, *)
(* 1 for some).  The body                                                  *)
(* carries the fields the pipeline reads; serial stands for the rest of    *)
(* the text (kernel uptime stamp, ports, ID ...), which makes lines differ.*)
(* The fields the parser reads are spelled out: whether " IN=" and         *)
(* " kernel: " occur, the timestamp text, the values after IN=, OUT= and   *)
(* SRC=, and the bytes of the MAC= value (fields IN_ and OUT_ for the       *)
(* parameters IN and OUT).                                                 *)

\* The text before the hostname: a number, a syslog date, or neither.
IntStamp(secs) == [form |-> "int", secs |-> secs, mon |-> 0, day |-> 0, hh |-> 0, mm |-> 0, ss |-> 0]
DateStamp(mon, day, hh, mm, ss) ==
    [form |-> "date", secs |-> 0, mon |-> mon, day |-> day, hh |-> hh, mm |-> mm, ss |-> ss]
BadStamp == [form |-> "bad", secs |-> 0, mon |-> 0, day |-> 0, hh |-> 0, mm |-> 0, ss |-> 0]

\* MAC= values, byte by byte: destination, source, ethertype; one address
\* only; no MAC= at all
GoodMAC == <<"d1", "d2", "d3", "d4", "d5", "d6", "s1", "s2", "s3", "s4", "s5", "s6", "08", "00">>
ShortMAC == <<"d1", "d2", "d3", "d4", "d5", "d6">>
NoMAC == <<>>

\* The words of a line that hold the name of a flag: the name, the character
\* before it and the character after it ("end": the stripped line ends there).
Word(name, before, after) == [name |-> name, before |-> before, after |-> after]

\* "... ID=1609 DF PROTO=TCP ... RES=0x00 SYN URGP=0", the flags of the test line
TestFlags == <<Word("DF", " ", " "), Word("SYN", " ", " ")>>

\* The lines the kernel and other programs write to the log file.  kind says
\* what is wrong with the line, if anything; the other defects leave the rest
\* of the line well formed.
Body(kind, serial, ts, src, dir) ==
    [kind |-> kind, serial |-> serial, ts |-> ts, SRC |-> src, log_type |-> dir,
     has_IN |-> kind \notin {"blank", "missing_IN"},
     has_kernel |-> kind \notin {"blank", "missing_kernel"},
     stamp |-> IF kind = "bad_timestamp" THEN BadStamp ELSE IntStamp(ts),
     IN_ |-> IF kind = "IN_equals_OUT" THEN "wan"
            ELSE IF kind = "nft" /\ dir = "OUTBOUND" THEN ""
            ELSE IF kind = "blank" THEN "" ELSE "wan",
     OUT_ |-> IF kind = "IN_equals_OUT" THEN "wan"
             ELSE IF kind = "nft" /\ dir \in {"OUTBOUND", "FORWARD"} THEN "lan"
             ELSE "",
     MAC |-> IF kind = "bad_MAC" THEN ShortMAC
             ELSE IF kind \in {"blank", "missing_parameter"} THEN NoMAC
             ELSE GoodMAC,
     words |-> IF kind = "blank" THEN <<>> ELSE TestFlags]

BlankBody == Body("blank", 0, 0, "", "")
Raw(pad, body) == [pad |-> pad, body |-> body]

\* str.strip()
strip(raw) == raw.body

\* sha256(self.line.encode()).hexdigest(): a function of the stripped text alone,
\* taken to be free of collisions
sha256(line) == <<"sha256", line>>

\* What is wrong with a line that is no netfilter line.
Defects == {"missing_IN", "missing_kernel", "bad_timestamp", "bad_MAC",
            "missing_parameter", "IN_equals_OUT"}
\* one defect for each exception the parser raises
CommonDefects == {"missing_IN", "bad_timestamp"}

\* The value of an attribute no parameter of the line has set
None == "None"

NF_FLAGS == {"ACK", "FIN", "SYN", "RST", "PSH", "URG", "ECE", "ECT", "CWR", "CE", "DF"}

\* search(r"\s%s[\s|$]" % flag, raw_line): whitespace, the name, and then one
\* character of the class [\s|$]: whitespace, '|' or '$'
get_flags(line) ==
    {flag \in NF_FLAGS :
        \E i \in 1..Len(line.words) :
            /\ line.words[i].name = flag
            /\ line.words[i].before = " "
            /\ line.words[i].after \in {" ", "|", "$"}}

\* get_parameters: " NAME=([\S]+)\s?" finds nothing when NAME= is followed by
\* white space, and the attribute keeps its default
get_parameters(value) == IF value = "" THEN None ELSE value

\* Calendar arithmetic of datetime (proleptic Gregorian, host clock in UTC)
IsLeap(y) == (y % 4 = 0 /\ y % 100 # 0) \/ y % 400 = 0
DaysBeforeYear(y) ==
    365 * (y - 1970) + ((y - 1969) \div 4) - ((y - 1901) \div 100) + ((y - 1601) \div 400)
DaysBeforeMonth(y, m) ==
    <<0, 31, 59, 90, 120, 151, 181, 212, 243, 273, 304, 334>>[m]
        + (IF m > 2 /\ IsLeap(y) THEN 1 ELSE 0)
\* datetime(y, mon, day, hh, mm, ss).timestamp()
mktime(y, ts) ==
    ((DaysBeforeYear(y) + DaysBeforeMonth(y, ts.mon) + ts.day - 1) * 24 + ts.hh) * 3600
        + ts.mm * 60 + ts.ss
\* datetime.now().year, at time() = t
YearOf(t) == CHOOSE y \in 1970..2099 : DaysBeforeYear(y) * 86400 <= t
                                       /\ t < DaysBeforeYear(y + 1) * 86400

\* Mutant: the year is left out of the text strptime reads, and the date falls
\* in the first year of the epoch.
timestamp_setter_no_year(ts, current_time) ==
    IF ts.form = "int" THEN ts.secs ELSE mktime(1970, ts)

\* timestamp.setter: int(ts), or strptime of the text with the current year
\* put in front
timestamp_setter(ts, current_time) ==
    IF ts.form = "int" THEN ts.secs ELSE mktime(YearOf(current_time), ts)

\* MacAddress.from_logline: findall takes the addresses of six bytes from
\* the left, without overlap; exactly two must be found
from_logline(mac_section) ==
    LET macs == [k \in 1..(Len(mac_section) \div 6) |->
                    SubSeq(mac_section, 6 * k - 5, 6 * k)]
    IN  [exc |-> IF Len(macs) = 2 THEN "none" ELSE "ValueError", macs |-> macs]

\* MAC.setter: self.src_mac, self.dst_mac = MacAddress.from_logline(macs)
MAC_setter(macs) ==
    LET found == from_logline(macs).macs IN [src_mac |-> found[1], dst_mac |-> found[2]]

\* The end of __post_init__: log_type is FORWARD unless one interface only is set
log_type_of(IN_, OUT_) ==
    IF IN_ # None /\ OUT_ = None THEN "INBOUND"
    ELSE IF OUT_ # None /\ IN_ = None THEN "OUTBOUND"
    ELSE "FORWARD"

\* __post_init__ and the setters it runs, in the order of the code: what the
\* first failing step raises.  The timestamp setter (strptime) and
\* MacAddress.from_logline raise ValueError, the other checks BadNFTLineError.
post_init_exc(line) ==
    IF ~line.has_IN THEN "BadNFTLineError"
    ELSE IF ~line.has_kernel THEN "BadNFTLineError"
    ELSE IF line.stamp.form = "bad" THEN "ValueError"
    ELSE IF line.MAC # NoMAC /\ from_logline(line.MAC).exc # "none" THEN "ValueError"
    ELSE IF line.MAC = NoMAC THEN "BadNFTLineError"
    ELSE IF get_parameters(line.IN_) = None /\ get_parameters(line.OUT_) = None
         THEN "BadNFTLineError"
    ELSE IF get_parameters(line.IN_) = get_parameters(line.OUT_) THEN "BadNFTLineError"
    ELSE "none"

\* NetFilterLogLine(line), constructed at time() = current_time: exc is the
\* exception __post_init__ raises
NetFilterLogLine(raw, current_time) ==
    LET line == strip(raw) IN
    IF post_init_exc(line) = "none"
    THEN [exc |-> "none", line |-> line, hash |-> sha256(line), SRC |-> line.SRC,
          timestamp |-> timestamp_setter(line.stamp, current_time),
          log_type |-> log_type_of(get_parameters(line.IN_), get_parameters(line.OUT_)),
          IN_ |-> get_parameters(line.IN_), OUT_ |-> get_parameters(line.OUT_),
          src_mac |-> MAC_setter(line.MAC).src_mac,
          dst_mac |-> MAC_setter(line.MAC).dst_mac,
          flags |-> get_flags(line)]
    ELSE [exc |-> post_init_exc(line), line |-> line, hash |-> sha256(line), SRC |-> "",
          timestamp |-> 0, log_type |-> "", IN_ |-> None, OUT_ |-> None,
          src_mac |-> <<>>, dst_mac |-> <<>>, flags |-> {}]

----------------------------------------------------------------------------
(* DumpsterDB (dumpster_db.py).  A table is the sequence of its rows in    *)
(* insertion order.                                                        *)

\* CREATE TABLE IF NOT EXISTS ... on a new file; uncommitted_writes = Event()
create_table ==
    [dumpster |-> <<>>, timeout |-> <<>>, bad |-> <<>>, invalid |-> <<>>,
     uncommitted_writes |-> FALSE]

Tables(d) == [dumpster |-> d.dumpster, timeout |-> d.timeout, bad |-> d.bad, invalid |-> d.invalid]

\* The decimal text of a natural number, most significant digit first.
RECURSIVE Digits(_)
Digits(n) == IF n < 10 THEN <<n>> ELSE Append(Digits(n \div 10), n % 10)

\* memcmp order of two texts given as sequences of character ranks
TextGreater(a, b) ==
    \E i \in 1..Len(a) :
        /\ \A j \in 1..(i - 1) : j <= Len(b) /\ a[j] = b[j]
        /\ i > Len(b) \/ a[i] > b[i]

\* "timestamp > ?" on the column timestamp TEXT with a float parameter: sqlite
\* gives the parameter TEXT affinity and compares the two texts.  The stored
\* text is the integer's digits; the parameter's text is its integer part, a
\* '.' (ranked -1, below every digit) and the fraction.
sql_timestamp_gt(ts, bound) == TextGreater(Digits(ts), Append(Digits(bound), -1))

get_from_ip(d, ip, max_age, current_time) ==
    {i \in 1..Len(d.dumpster) :
        /\ d.dumpster[i].src = ip
        /\ sql_timestamp_gt(d.dumpster[i].timestamp, current_time - max_age)}

\* Mutant: the row is written before the existence check answers.
insert_logline_write_first(d, logline) ==
    [exc |-> IF \E i \in 1..Len(d.dumpster) : d.dumpster[i].id = logline.hash
             THEN "LogLineExists" ELSE "none",
     db |-> [d EXCEPT !.dumpster = Append(@, [id |-> logline.hash, src |-> logline.SRC,
                                                direction |-> logline.log_type,
                                                timestamp |-> logline.timestamp,
                                                line |-> logline.line]),
                      !.uncommitted_writes = TRUE]]

\* Mutant: no existence check at all.
insert_logline_unchecked(d, logline) ==
    [exc |-> "none",
     db |-> [d EXCEPT !.dumpster = Append(@, [id |-> logline.hash, src |-> logline.SRC,
                                                direction |-> logline.log_type,
                                                timestamp |-> logline.timestamp,
                                                line |-> logline.line]),
                      !.uncommitted_writes = TRUE]]

\* Mutant: a row of the same source and second counts as the same line.
insert_logline_same_second(d, logline) ==
    IF \E i \in 1..Len(d.dumpster) : /\ d.dumpster[i].src = logline.SRC
                                      /\ d.dumpster[i].timestamp = logline.timestamp
    THEN [exc |-> "LogLineExists", db |-> d]
    ELSE [exc |-> "none",
          db |-> [d EXCEPT !.dumpster = Append(@, [id |-> logline.hash, src |-> logline.SRC,
                                                     direction |-> logline.log_type,
                                                     timestamp |-> logline.timestamp,
                                                     line |-> logline.line]),
                           !.uncommitted_writes = TRUE]]

\* Mutant: one row per source; the new row takes the place of the older ones.
insert_logline_keep_latest(d, logline) ==
    IF \E i \in 1..Len(d.dumpster) : d.dumpster[i].id = logline.hash
    THEN [exc |-> "LogLineExists", db |-> d]
    ELSE [exc |-> "none",
          db |-> [d EXCEPT !.dumpster =
                      Append(SelectSeq(@, LAMBDA row : row.src # logline.SRC),
                             [id |-> logline.hash, src |-> logline.SRC,
                              direction |-> logline.log_type,
                              timestamp |-> logline.timestamp,
                              line |-> logline.line]),
                           !.uncommitted_writes = TRUE]]

insert_logline(d, logline) ==
    IF \E i \in 1..Len(d.dumpster) : d.dumpster[i].id = logline.hash
    THEN [exc |-> "LogLineExists", db |-> d]
    ELSE [exc |-> "none",
          db |-> [d EXCEPT !.dumpster = Append(@, [id |-> logline.hash, src |-> logline.SRC,
                                                     direction |-> logline.log_type,
                                                     timestamp |-> logline.timestamp,
                                                     line |-> logline.line]),
                           !.uncommitted_writes = TRUE]]

\* INSERT INTO invalid on the primary key logline: sqlite3.IntegrityError on a repeat
insert_invalid(d, logline, current_time) ==
    IF \E i \in 1..Len(d.invalid) : d.invalid[i].logline = logline
    THEN [exc |-> "IntegrityError", db |-> d]
    ELSE [exc |-> "none",
          db |-> [d EXCEPT !.invalid = Append(@, [logline |-> logline, time |-> current_time]),
                           !.uncommitted_writes = TRUE]]

\* Mutant: the bad table is not read.
get_bad_ips_none(d) == <<>>

get_bad_ips(d) == [i \in 1..Len(d.bad) |-> d.bad[i].ip]

is_bad(d, ip) == \E i \in 1..Len(d.bad) : d.bad[i].ip = ip

\* Mutant: no is_bad check before the insert (on a table without its key).
insert_bad_unchecked(d, ip, current_time) ==
    [d EXCEPT !.bad = Append(@, [ip |-> ip, time |-> current_time]),
              !.uncommitted_writes = TRUE]

insert_bad(d, ip, current_time) ==
    IF is_bad(d, ip) THEN d
    ELSE [d EXCEPT !.bad = Append(@, [ip |-> ip, time |-> current_time]),
                   !.uncommitted_writes = TRUE]

is_timed_out(d, ip) == \E i \in 1..Len(d.timeout) : d.timeout[i].ip = ip

insert_timeout(d, ip, current_time) ==
    IF is_timed_out(d, ip) THEN d
    ELSE [d EXCEPT !.timeout = Append(@, [ip |-> ip, time |-> current_time]),
                   !.uncommitted_writes = TRUE]

commit(d) == [d EXCEPT !.uncommitted_writes = FALSE]

----------------------------------------------------------------------------
(* DumpsterRules (dumpster_rules.py) over the kernel's two sets.  A set is *)
(* a function from its member ips to elements; an element is timed with    *)
(* expires seconds left, or has no expiry (python None).                   *)

Timed(secs) == [timed |-> TRUE, expires |-> secs]
NoExpiry == [timed |-> FALSE, expires |-> 0]

\* the timeout argument of add_to_set: None, or seconds
NoTimeout == [given |-> FALSE, secs |-> 0]
Timeout(secs) == [given |-> TRUE, secs |-> secs]

Put(S, k, v) == [x \in DOMAIN S \cup {k} |-> IF x = k THEN v ELSE S[x]]
Drop(S, k) == [x \in DOMAIN S \ {k} |-> S[x]]

\* elements[data["val"]] = data.get("expires")
get_set_elements(S) == S

\* Mutant: with exist_ok the add command is run on a member too, and replaces it.
add_to_set_replace(S, dflt, element, timeout, exist_ok) ==
    LET set_items == get_set_elements(S) IN
    IF element \in DOMAIN set_items /\ ~exist_ok
    THEN [exc |-> "NFTSetItemExists", expires |-> set_items[element], set |-> S]
    ELSE [exc |-> "none", expires |-> NoExpiry,
          set |-> Put(S, element, IF timeout.given /\ timeout.secs # 0
                                  THEN Timed(timeout.secs) ELSE dflt)]

\* add_to_set(set_name, element, timeout, exist_ok) on the set S whose default
\* element timeout is dflt.  "if timeout:" takes 0 as no timeout.
add_to_set(S, dflt, element, timeout, exist_ok) ==
    LET set_items == get_set_elements(S) IN
    IF element \in DOMAIN set_items
    THEN IF exist_ok
         THEN [exc |-> "none", expires |-> set_items[element], set |-> S]
         ELSE [exc |-> "NFTSetItemExists", expires |-> set_items[element], set |-> S]
    ELSE [exc |-> "none", expires |-> NoExpiry,
          set |-> Put(S, element, IF timeout.given /\ timeout.secs # 0
                                  THEN Timed(timeout.secs) ELSE dflt)]

\* destroy element: no error when the element is absent
remove_from_set(S, element) == Drop(S, element)

\* add_set("dumpster_blackhole", timeout=15 * 60) / add_set("dumpster_blackhole_alt")
PrimaryDefault == Timed(BLACKHOLE_SET_TIMEOUT)
AltDefault == NoExpiry

\* DumpsterRules.block(ip): the element is added to the primary set with no
\* timeout, exist_ok=True
block(S, ip) == IF ip \in DOMAIN S THEN S ELSE Put(S, ip, NoExpiry)

\* The kernel after d seconds: timed elements count down and leave at 0.
Expire(S, d) ==
    [ip \in {x \in DOMAIN S : ~S[x].timed \/ S[x].expires > d} |->
        IF S[ip].timed THEN Timed(S[ip].expires - d) ELSE S[ip]]

----------------------------------------------------------------------------
(* DumpsterRules.blackhole, which Dumpster calls as nft.time_out(ip, timeout) *)

\* A command of blackhole(): an add_to_set or a remove_from_set on one set.
AddCmd(set, timeout, exist_ok, exc) ==
    [op |-> "add", set |-> set, timeout |-> timeout, exist_ok |-> exist_ok, exc |-> exc]
RemoveCmd(set) ==
    [op |-> "remove", set |-> set, timeout |-> NoTimeout, exist_ok |-> FALSE, exc |-> "none"]

\* try: self.add_to_set("dumpster_blackhole", ip)
blackhole_first(ip) == AddCmd("dumpster_blackhole", NoTimeout, FALSE, "none")

\* Mutant: the element leaves the primary set before it enters the alt set.
blackhole_rotation_remove_first(ip, expires) ==
    << RemoveCmd("dumpster_blackhole"),
       AddCmd("dumpster_blackhole_alt", NoTimeout, TRUE, "none"),
       AddCmd("dumpster_blackhole",
              Timeout(expires.expires + BLACKHOLE_EXTENSION), FALSE,
              IF expires.timed THEN "none" ELSE "TypeError"),
       RemoveCmd("dumpster_blackhole_alt") >>

\* Mutant: the element leaves the alt set before it is back in the primary set.
blackhole_rotation_drop_alt_early(ip, expires) ==
    << AddCmd("dumpster_blackhole_alt", NoTimeout, TRUE, "none"),
       RemoveCmd("dumpster_blackhole"),
       RemoveCmd("dumpster_blackhole_alt"),
       AddCmd("dumpster_blackhole",
              Timeout(expires.expires + BLACKHOLE_EXTENSION), FALSE,
              IF expires.timed THEN "none" ELSE "TypeError") >>

\* Mutant: the element is not removed from the primary set before the re-add.
blackhole_rotation_no_remove(ip, expires) ==
    << AddCmd("dumpster_blackhole_alt", NoTimeout, TRUE, "none"),
       AddCmd("dumpster_blackhole",
              Timeout(expires.expires + BLACKHOLE_EXTENSION), FALSE,
              IF expires.timed THEN "none" ELSE "TypeError"),
       RemoveCmd("dumpster_blackhole_alt") >>

\* except NFTSetItemExists as e: the four commands, in order.  e.expires is
\* None for an element without expiry, and None + 15 * 60 raises TypeError.
blackhole_rotation(ip, expires) ==
    << AddCmd("dumpster_blackhole_alt", NoTimeout, TRUE, "none"),
       RemoveCmd("dumpster_blackhole"),
       AddCmd("dumpster_blackhole",
              Timeout(expires.expires + BLACKHOLE_EXTENSION), FALSE,
              IF expires.timed THEN "none" ELSE "TypeError"),
       RemoveCmd("dumpster_blackhole_alt") >>

\* Mutant: the first add goes to the alt set.
time_out_alt_set(ip, seconds) == AddCmd("dumpster_blackhole_alt", NoTimeout, FALSE, "none")

\* nft.time_out(log_item.SRC, self.timeout): the seconds do not reach blackhole(ip)
time_out(ip, seconds) == blackhole_first(ip)

----------------------------------------------------------------------------
(* DumpsterRules.init_nftables over the kernel's ruleset.  The kernel keeps *)
(* one table per family and name, one chain and one set per name in a      *)
(* table, and the rules of a chain in the order they were added.           *)

EmptySet == [ip \in {} |-> NoExpiry]

\* the kernel after a boot: no table
NoKernel == [tables |-> {}, chains |-> <<>>, sets |-> [n \in {} |-> EmptySet],
             rules |-> <<>>]

DUMPSTER_CHAINS == <<"input">>

\* the expression of the drop rule for a set: match, counter, log, drop
DropRule(set_name) ==
    << [stmt |-> "match", arg |-> set_name],
       [stmt |-> "counter", arg |-> ""],
       [stmt |-> "log", arg |-> "Dumpster Blackhole: "],
       [stmt |-> "drop", arg |-> ""] >>

\* the names in "list tables" / "list table inet dumpster"
tables(K) == K.tables
chains(K) == IF "dumpster" \in K.tables THEN Range(K.chains) ELSE {}
get_rules(K, chain) ==
    {i \in 1..Len(K.rules) : K.rules[i].chain = chain}

add_table(K) ==
    IF "dumpster" \in tables(K) THEN K
    ELSE [K EXCEPT !.tables = @ \cup {"dumpster"}]

add_chain(K, chain_name) ==
    IF chain_name \in chains(K) THEN K
    ELSE [K EXCEPT !.chains = Append(@, chain_name)]

\* No look at the sets there are: the "add set" command is run, which the
\* kernel takes as done when a set of that name exists, members and all.
add_set(K, set_name) ==
    IF set_name \in DOMAIN K.sets THEN K
    ELSE [K EXCEPT !.sets = [n \in DOMAIN @ \cup {set_name} |->
                                IF n = set_name THEN EmptySet ELSE @[n]]]

\* Mutant: the rule is added without the look at the rules of the chain.
add_rule_unchecked(K, expression, chain_name) ==
    [K EXCEPT !.rules = Append(@, [chain |-> chain_name, expr |-> expression])]

\* if rule["expr"][0] == expression[0]: return
add_rule(K, expression, chain_name) ==
    IF \E i \in get_rules(K, chain_name) : K.rules[i].expr[1] = expression[1]
    THEN K
    ELSE [K EXCEPT !.rules = Append(@, [chain |-> chain_name, expr |-> expression])]

RECURSIVE add_chains(_, _)
add_chains(K, names) ==
    IF names = <<>> THEN K ELSE add_chains(add_chain(K, Head(names)), Tail(names))

init_nftables(K) ==
    LET K1 == add_table(K)
        K2 == add_chains(K1, DUMPSTER_CHAINS)
        K3 == add_set(K2, "dumpster_blackhole")
        K4 == add_set(K3, "dumpster_blackhole_alt")
        K5 == add_rule(K4, DropRule("dumpster_blackhole"), "input")
    IN  add_rule(K5, DropRule("dumpster_blackhole_alt"), "input")

RulesetOf(K) == [tables |-> K.tables, chains |-> K.chains, sets |-> DOMAIN K.sets,
                 rules |-> K.rules]

\* the kernel's ruleset with the members of its sets
Kernel ==
    [tables |-> ruleset.tables, chains |-> ruleset.chains, rules |-> ruleset.rules,
     sets |-> [n \in ruleset.sets |-> IF n = "dumpster_blackhole" THEN primary ELSE alt]]

----------------------------------------------------------------------------
(* The frame of a handle_log_item call *)

NoItem == NetFilterLogLine(Raw(0, BlankBody), 0)

IdleFrame ==
    [status |-> "idle", item |-> NoItem, n |-> 0, was_timed_out |-> FALSE,
     branch |-> "none", calls |-> <<>>,
     exc |-> "none", step |-> 0, expires |-> NoExpiry,
     pre_in |-> FALSE, pre |-> NoExpiry, t0 |-> 0,
     post_in |-> FALSE, post |-> NoExpiry, t1 |-> 0]

Call(fn, ip, arg) == [fn |-> fn, ip |-> ip, arg |-> arg]

\* Mutant: the repeat count must be exceeded, not reached.
Branch_strict_repeat(d, item, recent_drops) ==
    IF recent_drops >= config.bad_ip_threshold THEN "bad"
    ELSE IF is_timed_out(d, item.SRC) THEN "extend"
    ELSE IF item.log_type \in config.scan_directions /\ recent_drops > config.repeat_count
         THEN "new"
    ELSE "allow"

\* Mutant: the timeout table is consulted before the bad-ip threshold.
Branch_timeout_first(d, item, recent_drops) ==
    IF is_timed_out(d, item.SRC) THEN "extend"
    ELSE IF recent_drops >= config.bad_ip_threshold THEN "bad"
    ELSE IF item.log_type \in config.scan_directions /\ recent_drops >= config.repeat_count
         THEN "new"
    ELSE "allow"

\* Mutant: every direction is scanned.
Branch_any_direction(d, item, recent_drops) ==
    IF recent_drops >= config.bad_ip_threshold THEN "bad"
    ELSE IF is_timed_out(d, item.SRC) THEN "extend"
    ELSE IF recent_drops >= config.repeat_count THEN "new"
    ELSE "allow"

\* Mutant: a block is extended only when the source repeats within the period.
Branch_extend_on_repeat(d, item, recent_drops) ==
    IF recent_drops >= config.bad_ip_threshold THEN "bad"
    ELSE IF is_timed_out(d, item.SRC) /\ recent_drops >= config.repeat_count THEN "extend"
    ELSE IF item.log_type \in config.scan_directions /\ recent_drops >= config.repeat_count
         THEN "new"
    ELSE "allow"

\* Mutant: the first drop of a scanned direction is timed out.
Branch_first_drop(d, item, recent_drops) ==
    IF recent_drops >= config.bad_ip_threshold THEN "bad"
    ELSE IF is_timed_out(d, item.SRC) THEN "extend"
    ELSE IF item.log_type \in config.scan_directions THEN "new"
    ELSE "allow"

\* handle_log_item's decision after the insert, on the count of recent drops
Branch(d, item, recent_drops) ==
    IF recent_drops >= config.bad_ip_threshold THEN "bad"
    ELSE IF is_timed_out(d, item.SRC) THEN "extend"
    ELSE IF item.log_type \in config.scan_directions /\ recent_drops >= config.repeat_count
         THEN "new"
    ELSE "allow"

----------------------------------------------------------------------------
(* Initial state: the process starts on a new database, the kernel sets    *)
(* empty, the log files empty.                                             *)

\* self.log_readers: one NetfilterLogReader per configured log file
Readers == Range(config.log_files)

\* What a run of the process has done so far (observation only): the ips the
\* handler called time_out and block for, the lines the policy task took off
\* each reader's queues, and whether the run re-reads files that an earlier
\* run handled to the end and committed.
ClearRun == [time_out_invoked |-> {}, time_out_done |-> {}, block_invoked |-> {},
             block_done |-> {},
             handled |-> [r \in Readers |-> <<>>],
             archived |-> [r \in Readers |-> <<>>],
             reread |-> FALSE]

Configs ==
    {[repeat_period |-> DEFAULT_REPEAT_PERIOD, repeat_count |-> CONFIG_REPEAT_COUNT,
      timeout |-> t, bad_ip_threshold |-> CONFIG_BAD_IP_THRESHOLD,
      scan_directions |-> DEFAULT_SCAN_DIRECTIONS,
      log_files |-> LOG_FILES] : t \in CONFIG_TIMEOUTS}

\* The configuration with the default timeout and two log files
TailerConfigs ==
    {[repeat_period |-> DEFAULT_REPEAT_PERIOD, repeat_count |-> CONFIG_REPEAT_COUNT,
      timeout |-> DEFAULT_TIMEOUT, bad_ip_threshold |-> CONFIG_BAD_IP_THRESHOLD,
      scan_directions |-> DEFAULT_SCAN_DIRECTIONS,
      log_files |-> TWO_LOG_FILES]}

\* The environment's budget of events for the configuration
Budget == IF Len(config.log_files) > 1 THEN MaxTailerEvents ELSE MaxEvents

StartAt(t) ==
    /\ now = t
    /\ is_file \in [Readers -> BOOLEAN]
    /\ tailer = [r \in Readers |-> "new"]
    /\ file = [r \in Readers |-> <<>>]
    /\ pos = [r \in Readers |-> 0]
    /\ log_items = [r \in Readers |-> <<>>]
    /\ invalid_log_items = [r \in Readers |-> <<>>]
    /\ policy_pc = "boot"
    /\ rd = 1
    /\ db = create_table
    /\ disk = Tables(create_table)
    /\ boot = get_bad_ips(create_table)
    /\ started = FALSE
    /\ ruleset = RulesetOf(init_nftables(NoKernel))
    /\ primary = EmptySet
    /\ alt = EmptySet
    /\ partial = [r \in Readers |-> <<>>]
    /\ h = IdleFrame
    /\ hist = [run |-> ClearRun, written |-> 0, restarts |-> 0, events |-> 0]

\* no line is parsed by hand
NoParse == [pc |-> "none", raw |-> Raw(0, BlankBody),
            first |-> NoItem, at |-> 0, second |-> NoItem, again |-> 0]

Start == StartAt(StartTime) /\ parser = NoParse

Init == config \in Configs /\ Start

InitTailers == config \in TailerConfigs /\ Start

\* one log file and the default timeout
InitParser == config \in {c \in Configs : c.timeout = DEFAULT_TIMEOUT} /\ Start

----------------------------------------------------------------------------
(* Environment: the log writer, the clock and the kernel's expiry.  A line  *)
(* is written once the readers have read what was written before and the   *)
(* policy task sleeps: the program cannot tell a line written earlier from *)
(* one written then, the time stamp apart, and the clock moves freely.     *)

\* a reader whose task is alive has read its file to the end
AtEOF(q) == tailer[q] # "new" /\ (tailer[q] = "open" => pos[q] = Len(file[q]))

CanWrite ==
    /\ hist.events < Budget
    /\ policy_pc = "sleep"
    /\ \A q \in Readers : AtEOF(q) /\ partial[q] = <<>>

\* The kernel logs a new drop, stamped with the current time.
WriteLine(r) ==
    /\ CanWrite
    /\ is_file[r]
    /\ \E k \in LineKinds :
         file' = [file EXCEPT ![r] =
                    Append(@, Raw(0, Body("nft", hist.written + 1, now, k[1], k[2])))]
    /\ hist' = [hist EXCEPT !.written = @ + 1, !.events = @ + 1, !.run.reread = FALSE]
    /\ UNCHANGED <<config, parser, ruleset, partial, is_file, tailer, now, pos, log_items, invalid_log_items, policy_pc, rd, boot,
                   db, disk, started, primary, alt, h>>

\* A line that is not a netfilter line, with one of the defects K.
WriteBadLine(r, K) ==
    /\ CanWrite
    /\ is_file[r]
    /\ \E k \in K :
         file' = [file EXCEPT ![r] = Append(@, Raw(0, Body(k, hist.written + 1, 0, "", "")))]
    /\ hist' = [hist EXCEPT !.written = @ + 1, !.events = @ + 1, !.run.reread = FALSE]
    /\ UNCHANGED <<config, parser, ruleset, partial, is_file, tailer, now, pos, log_items, invalid_log_items, policy_pc, rd, boot,
                   db, disk, started, primary, alt, h>>

\* A line, with whitespace around it, whose text, stripped, equals that of a
\* line already written.
WriteSameLine(r) ==
    /\ CanWrite
    /\ is_file[r]
    /\ \E q \in Readers :
         \E i \in 1..Len(file[q]) :
            /\ file[q][i].body.kind # "blank"
            /\ file' = [file EXCEPT ![r] = Append(@, Raw(1, file[q][i].body))]
    /\ hist' = [hist EXCEPT !.written = @ + 1, !.events = @ + 1, !.run.reread = FALSE]
    /\ UNCHANGED <<config, parser, ruleset, partial, is_file, tailer, now, pos, log_items, invalid_log_items, policy_pc, rd, boot,
                   db, disk, started, primary, alt, h>>

WriteBlankLine(r) ==
    /\ CanWrite
    /\ is_file[r]
    /\ file' = [file EXCEPT ![r] = Append(@, Raw(1, BlankBody))]
    /\ hist' = [hist EXCEPT !.written = @ + 1, !.events = @ + 1, !.run.reread = FALSE]
    /\ UNCHANGED <<config, parser, ruleset, partial, is_file, tailer, now, pos, log_items, invalid_log_items, policy_pc, rd, boot,
                   db, disk, started, primary, alt, h>>

Tick ==
    /\ hist.events < Budget
    /\ \E d \in TickSteps :
         /\ now' = now + d
         /\ primary' = Expire(primary, d)
         /\ alt' = Expire(alt, d)
    /\ hist' = [hist EXCEPT !.events = @ + 1]
    /\ UNCHANGED <<config, parser, ruleset, partial, is_file, tailer, file, pos, log_items, invalid_log_items, policy_pc, rd, boot,
                   db, disk, started, h>>

----------------------------------------------------------------------------
(* NetfilterLogReader.watch_log: one readline().  The reader task runs only *)
(* while the policy task sleeps (one event loop, and process_log_queue      *)
(* never suspends).                                                         *)

\* The task's first step: the file must exist and be a regular file, or the
\* task ends with FileNotFoundError (nothing awaits the task).
watch_log_open(r) ==
    /\ policy_pc = "sleep"
    /\ tailer[r] = "new"
    /\ tailer' = [tailer EXCEPT ![r] = IF is_file[r] THEN "open" ELSE "FileNotFoundError"]
    /\ UNCHANGED <<config, parser, ruleset, partial, is_file, now, file, pos, log_items, invalid_log_items,
                   policy_pc, rd, boot, db, disk, started, primary, alt, h, hist>>

\* One readline().  Only BadNFTLineError is caught: any other exception of
\* the parser ends the task.
watch_log(r) ==
    /\ policy_pc = "sleep"
    /\ tailer[r] = "open"
    /\ pos[r] < Len(file[r])
    /\ pos' = [pos EXCEPT ![r] = @ + 1]
    /\ LET line == file[r][pos[r] + 1]
           log_item == NetFilterLogLine(line, now)
       IN  IF strip(line) = BlankBody
           THEN UNCHANGED <<log_items, invalid_log_items, tailer>>
           ELSE IF log_item.exc = "none"
           THEN /\ log_items' = [log_items EXCEPT ![r] = Append(@, log_item)]
                /\ UNCHANGED <<invalid_log_items, tailer>>
           ELSE IF log_item.exc = "BadNFTLineError"
           THEN /\ invalid_log_items' = [invalid_log_items EXCEPT ![r] = Append(@, log_item.line)]
                /\ UNCHANGED <<log_items, tailer>>
           ELSE /\ tailer' = [tailer EXCEPT ![r] = log_item.exc]
                /\ UNCHANGED <<log_items, invalid_log_items>>
    /\ UNCHANGED <<config, parser, ruleset, partial, is_file, now, file, policy_pc, rd, boot, db, disk, started,
                   primary, alt, h, hist>>

----------------------------------------------------------------------------
(* Dumpster (dumpster.py)                                                  *)

\* Dumpster.__init__: self.nft.block(self.db.get_bad_ips()), one element per
\* step; a failed command raises NFTError out of the constructor.
BootBlock ==
    /\ policy_pc = "boot"
    /\ boot # <<>>
    /\ \E ok \in BOOLEAN :
         IF ok
         THEN /\ primary' = block(primary, Head(boot))
              /\ boot' = Tail(boot)
              /\ UNCHANGED policy_pc
         ELSE /\ policy_pc' = "raised"
              /\ UNCHANGED <<primary, boot>>
    /\ UNCHANGED <<config, parser, ruleset, partial, is_file, tailer, now, file, pos, log_items, invalid_log_items, rd, db, disk,
                   started, alt, h, hist>>

\* The constructor returns; run() starts the readers, finds the queues empty
\* and sleeps.
BootDone ==
    /\ policy_pc = "boot"
    /\ boot = <<>>
    /\ policy_pc' = "sleep"
    /\ UNCHANGED <<config, parser, ruleset, partial, is_file, tailer, now, file, pos, log_items, invalid_log_items, rd, boot, db,
                   disk, started, primary, alt, h, hist>>

\* run(): await self.process_log_queue().  A pass over empty queues changes
\* nothing and is left out.
process_log_queue ==
    /\ policy_pc = "sleep"
    /\ \E r \in Readers : log_items[r] # <<>> \/ invalid_log_items[r] # <<>>
    /\ \A r \in Readers : AtEOF(r)
    /\ policy_pc' = "drain"
    /\ rd' = 1
    /\ UNCHANGED <<config, parser, ruleset, partial, is_file, tailer, now, file, pos, log_items, invalid_log_items, boot, db, disk,
                   started, primary, alt, h, hist>>

\* The call ends normally: the frame keeps what the primary set held for the
\* source at that moment.
Return(f, d) ==
    /\ h' = [f EXCEPT !.status = "returned",
                      !.post_in = f.item.SRC \in DOMAIN primary',
                      !.post = IF f.item.SRC \in DOMAIN primary'
                               THEN primary'[f.item.SRC] ELSE NoExpiry,
                      !.t1 = now]
    /\ db' = d
    /\ started' = TRUE
    /\ policy_pc' = "drain"

\* Mutant: the store insert precedes the firewall call, so the row is written
\* when the call raises.
Raise_after_insert(f, exc) ==
    /\ h' = [f EXCEPT !.status = "raised", !.exc = exc]
    /\ policy_pc' = "raised"
    /\ db' = IF f.branch = "new" THEN insert_timeout(db, f.item.SRC, now)
             ELSE IF f.branch = "bad" THEN insert_bad(db, f.item.SRC, now)
             ELSE db
    /\ UNCHANGED started

\* No except clause but LogLineExists: the exception leaves handle_log_item,
\* process_log_queue and run().
Raise(f, exc) ==
    /\ h' = [f EXCEPT !.status = "raised", !.exc = exc]
    /\ policy_pc' = "raised"
    /\ UNCHANGED <<db, started>>

\* handle_log_item up to its first firewall call
handle_log_item(r) ==
    /\ policy_pc = "drain"
    /\ r = config.log_files[rd]
    /\ log_items[r] # <<>>
    /\ log_items' = [log_items EXCEPT ![r] = Tail(@)]
    /\ LET log_item == Head(log_items[r])
           ins == insert_logline(db, log_item)
           recent_drops == Cardinality(get_from_ip(ins.db, log_item.SRC,
                                                   config.repeat_period, now))
           branch == Branch(ins.db, log_item, recent_drops)
           taken == [hist EXCEPT !.run.handled[r] = Append(@, log_item.line)]
           f == [IdleFrame EXCEPT !.status = "running", !.item = log_item,
                                  !.was_timed_out = is_timed_out(db, log_item.SRC),
                                  !.pre_in = log_item.SRC \in DOMAIN primary,
                                  !.pre = IF log_item.SRC \in DOMAIN primary
                                          THEN primary[log_item.SRC] ELSE NoExpiry,
                                  !.t0 = now]
       IN  IF ins.exc = "LogLineExists"
           THEN /\ h' = [f EXCEPT !.status = "returned", !.branch = "exists"]
                /\ db' = ins.db
                /\ hist' = taken
                /\ UNCHANGED <<started, policy_pc>>
           ELSE IF branch = "bad"
           THEN /\ h' = [f EXCEPT !.n = recent_drops, !.branch = branch,
                                  !.calls = <<Call("block", log_item.SRC, 0)>>]
                /\ db' = ins.db
                /\ policy_pc' = "block"
                /\ hist' = [taken EXCEPT !.run.block_invoked = @ \cup {log_item.SRC}]
                /\ UNCHANGED started
           ELSE IF branch \in {"extend", "new"}
           THEN /\ h' = [f EXCEPT !.n = recent_drops, !.branch = branch,
                                  !.calls = <<Call("time_out", log_item.SRC, config.timeout)>>]
                /\ db' = ins.db
                /\ policy_pc' = "blackhole"
                /\ hist' = [taken EXCEPT !.run.time_out_invoked = @ \cup {log_item.SRC}]
                /\ UNCHANGED started
           ELSE /\ h' = [f EXCEPT !.status = "returned", !.n = recent_drops,
                                  !.branch = branch]
                /\ db' = ins.db
                /\ started' = TRUE
                /\ hist' = taken
                /\ UNCHANGED policy_pc
    /\ UNCHANGED <<config, parser, ruleset, partial, is_file, tailer, now, file, pos, invalid_log_items, rd, boot, disk,
                   primary, alt>>

\* self.nft.block(log_item.SRC); self.db.insert_bad(log_item.SRC)
nft_block ==
    /\ policy_pc = "block"
    /\ \E ok \in BOOLEAN :
         IF ok
         THEN /\ primary' = block(primary, h.item.SRC)
              /\ hist' = [hist EXCEPT !.run.block_done = @ \cup {h.item.SRC}]
              /\ Return([h EXCEPT !.calls = Append(@, Call("insert_bad", h.item.SRC, 0))],
                        insert_bad(db, h.item.SRC, now))
         ELSE /\ Raise(h, "NFTError")
              /\ UNCHANGED <<primary, hist>>
    /\ UNCHANGED <<config, parser, ruleset, partial, is_file, tailer, now, file, pos, log_items, invalid_log_items, rd, boot, disk,
                   alt>>

\* One command of blackhole() against the kernel
RunCmd(cmd, ip) ==
    LET S == IF cmd.set = "dumpster_blackhole" THEN primary ELSE alt
        dflt == IF cmd.set = "dumpster_blackhole" THEN PrimaryDefault ELSE AltDefault
    IN  IF cmd.exc # "none" THEN [exc |-> cmd.exc, expires |-> NoExpiry, set |-> S]
        ELSE IF cmd.op = "add" THEN add_to_set(S, dflt, ip, cmd.timeout, cmd.exist_ok)
        ELSE [exc |-> "none", expires |-> NoExpiry, set |-> remove_from_set(S, ip)]

Store(cmd, S) ==
    IF cmd.set = "dumpster_blackhole"
    THEN primary' = S /\ UNCHANGED alt
    ELSE alt' = S /\ UNCHANGED primary

\* time_out returned to handle_log_item: the new offender gets its timeout row
AfterTimeOut(f) ==
    /\ hist' = [hist EXCEPT !.run.time_out_done = @ \cup {f.item.SRC}]
    /\ IF f.branch = "new"
       THEN Return([f EXCEPT !.calls = Append(@, Call("insert_timeout", f.item.SRC, 0))],
                   insert_timeout(db, f.item.SRC, now))
       ELSE Return(f, db)

\* blackhole(): try: add_to_set("dumpster_blackhole", ip)
nft_blackhole ==
    /\ policy_pc = "blackhole"
    /\ \E ok \in BOOLEAN :
         LET cmd == time_out(h.item.SRC, h.calls[1].arg)
             res == RunCmd(cmd, h.item.SRC)
         IN  IF ~ok
             THEN Raise(h, "NFTError") /\ UNCHANGED <<primary, alt, hist>>
             ELSE IF res.exc = "NFTSetItemExists"
             THEN /\ h' = [h EXCEPT !.step = 1, !.expires = res.expires]
                  /\ policy_pc' = "rotate"
                  /\ UNCHANGED <<primary, alt, db, started, hist>>
             ELSE /\ Store(cmd, res.set)
                  /\ AfterTimeOut(h)
    /\ UNCHANGED <<config, parser, ruleset, partial, is_file, tailer, now, file, pos, log_items, invalid_log_items, rd, boot, disk>>

\* blackhole(): except NFTSetItemExists as e: the next command of the rotation
nft_rotate ==
    /\ policy_pc = "rotate"
    /\ \E ok \in BOOLEAN :
         LET rotation == blackhole_rotation(h.item.SRC, h.expires)
             cmd == rotation[h.step]
             res == RunCmd(cmd, h.item.SRC)
         IN  IF res.exc # "none"
             THEN Raise(h, res.exc) /\ UNCHANGED <<primary, alt, hist>>
             ELSE IF ~ok
             THEN Raise(h, "NFTError") /\ UNCHANGED <<primary, alt, hist>>
             ELSE /\ Store(cmd, res.set)
                  /\ IF h.step < Len(rotation)
                     THEN /\ h' = [h EXCEPT !.step = @ + 1]
                          /\ UNCHANGED <<policy_pc, db, started, hist>>
                     ELSE AfterTimeOut(h)
    /\ UNCHANGED <<config, parser, ruleset, partial, is_file, tailer, now, file, pos, log_items, invalid_log_items, rd, boot, disk>>

\* process_log_queue: self.db.insert_invalid(await log_reader.invalid_log_items.get())
drain_invalid(r) ==
    /\ policy_pc = "drain"
    /\ r = config.log_files[rd]
    /\ log_items[r] = <<>>
    /\ invalid_log_items[r] # <<>>
    /\ invalid_log_items' = [invalid_log_items EXCEPT ![r] = Tail(@)]
    /\ hist' = [hist EXCEPT !.run.archived[r] = Append(@, Head(invalid_log_items[r]))]
    /\ LET ins == insert_invalid(db, Head(invalid_log_items[r]), now)
       IN  IF ins.exc = "none"
           THEN db' = ins.db /\ UNCHANGED policy_pc
           ELSE policy_pc' = "raised" /\ UNCHANGED db
    /\ UNCHANGED <<config, parser, ruleset, partial, is_file, tailer, now, file, pos, log_items, rd, boot, disk, started,
                   primary, alt, h>>

\* process_log_queue: the reader's queues are empty: the next reader, or the
\* commit and back to run()'s sleep
drain_done ==
    /\ policy_pc = "drain"
    /\ log_items[config.log_files[rd]] = <<>>
    /\ invalid_log_items[config.log_files[rd]] = <<>>
    /\ IF rd < Len(config.log_files)
       THEN rd' = rd + 1 /\ UNCHANGED <<policy_pc, db, disk>>
       ELSE /\ policy_pc' = "sleep"
            /\ UNCHANGED rd
            /\ IF db.uncommitted_writes
               THEN db' = commit(db) /\ disk' = Tables(db)
               ELSE UNCHANGED <<db, disk>>
    /\ UNCHANGED <<config, parser, ruleset, partial, is_file, tailer, now, file, pos, log_items, invalid_log_items, boot, started,
                   primary, alt, h, hist>>

\* SIGINT: asyncio.run cancels the main task, which takes the CancelledError
\* where it is suspended, in run()'s sleep; run() has no handler and ends, and
\* the reader tasks are cancelled with it.  Nothing calls DumpsterDB.close().
Stop ==
    /\ policy_pc = "sleep"
    /\ policy_pc' = "stopped"
    /\ tailer' = [r \in Readers |-> IF tailer[r] \in {"new", "open"} THEN "cancelled"
                                                                    ELSE tailer[r]]
    /\ UNCHANGED <<config, parser, ruleset, partial, is_file, now, file, pos, log_items, invalid_log_items, rd,
                   boot, db, disk, started, primary, alt, h, hist>>

\* Every line of every file was read and taken off its queue, and the pass
\* that took it has committed.
AllHandled ==
    /\ policy_pc \in {"sleep", "stopped"}
    /\ \A r \in Readers :
          /\ is_file[r] /\ tailer[r] \in {"open", "cancelled"}
          /\ pos[r] = Len(file[r])
          /\ log_items[r] = <<>> /\ invalid_log_items[r] = <<>>
    /\ ~db.uncommitted_writes

\* The operator starts the process again after it ended (or stops and starts
\* it while it sleeps).  The sqlite file keeps what was committed; the kernel
\* keeps its sets unless the host rebooted.  The readers open their files at
\* byte 0.
Restart ==
    /\ policy_pc \in {"raised", "sleep", "stopped"}
    /\ hist.events < Budget
    /\ \E reboot \in BOOLEAN :
         LET K == init_nftables(IF reboot THEN NoKernel ELSE Kernel)
         IN  /\ ruleset' = RulesetOf(K)
             /\ primary' = K.sets["dumpster_blackhole"]
             /\ alt' = K.sets["dumpster_blackhole_alt"]
    /\ db' = disk @@ [uncommitted_writes |-> FALSE]
    /\ boot' = get_bad_ips(disk)
    /\ tailer' = [r \in Readers |-> "new"]
    /\ pos' = [r \in Readers |-> 0]
    /\ log_items' = [r \in Readers |-> <<>>]
    /\ invalid_log_items' = [r \in Readers |-> <<>>]
    /\ policy_pc' = "boot"
    /\ rd' = 1
    /\ started' = FALSE
    /\ h' = IdleFrame
    /\ hist' = [hist EXCEPT !.run = [ClearRun EXCEPT !.reread = AllHandled],
                            !.restarts = @ + 1, !.events = @ + 1]
    /\ UNCHANGED <<config, parser, partial, is_file, now, file, disk>>

Next ==
    \/ \E r \in Readers : WriteLine(r)
    \/ \E r \in Readers : WriteBadLine(r, CommonDefects)
    \/ \E r \in Readers : WriteSameLine(r)
    \/ \E r \in Readers : WriteBlankLine(r)
    \/ Tick
    \/ \E r \in Readers : watch_log_open(r)
    \/ \E r \in Readers : watch_log(r)
    \/ BootBlock
    \/ BootDone
    \/ process_log_queue
    \/ \E r \in Readers : handle_log_item(r)
    \/ nft_block
    \/ nft_blackhole
    \/ nft_rotate
    \/ \E r \in Readers : drain_invalid(r)
    \/ drain_done
    \/ Stop
    \/ Restart

Spec == Init /\ [][Next]_vars

\* One run of the program on a clock that stands still (no rotation, no
\* constructor blocks), on logs whose lines have every defect the parser knows.
NextRun ==
    \/ \E r \in Readers : WriteLine(r)
    \/ \E r \in Readers : WriteBadLine(r, Defects)
    \/ \E r \in Readers : WriteSameLine(r)
    \/ \E r \in Readers : WriteBlankLine(r)
    \/ \E r \in Readers : watch_log_open(r)
    \/ \E r \in Readers : watch_log(r)
    \/ BootDone
    \/ process_log_queue
    \/ \E r \in Readers : handle_log_item(r)
    \/ nft_block
    \/ nft_blackhole
    \/ \E r \in Readers : drain_invalid(r)
    \/ drain_done

\* one log file
SpecParser == InitParser /\ [][NextRun]_vars

\* two log files
SpecTailers == InitTailers /\ [][NextRun]_vars

\* The policy task: run() and what it awaits
PolicyTask ==
    \/ BootDone
    \/ process_log_queue
    \/ \E r \in Readers : handle_log_item(r)
    \/ nft_block
    \/ nft_blackhole
    \/ \E r \in Readers : drain_invalid(r)
    \/ drain_done

\* The event loop runs every task that is ready: the reader tasks and the
\* policy task each take their next step when they can.
SpecFair ==
    /\ SpecParser
    /\ \A r \in Range(LOG_FILES) : WF_vars(watch_log_open(r) \/ watch_log(r))
    /\ WF_vars(PolicyTask)

----------------------------------------------------------------------------
(* The parser on its own: NetFilterLogLine(raw) on any line, at any time,   *)
(* and NetFilterLogLine(parsed.line) on the text it kept, later.            *)

\* A line of text by what the parser reads in it
LogText(has_IN, has_kernel, stamp, IN_, OUT_, MAC) ==
    [kind |-> "text", serial |-> 0, ts |-> 0, SRC |-> "1.2.3.4", log_type |-> "",
     has_IN |-> has_IN, has_kernel |-> has_kernel, stamp |-> stamp,
     IN_ |-> IN_, OUT_ |-> OUT_, MAC |-> MAC, words |-> TestFlags]

\* three addresses in the MAC= value
LongMAC == GoodMAC \o <<"aa", "bb", "cc", "dd">>

\* "Dec 28 22:16:18", the date of the test line
TestDate == DateStamp(12, 28, 22, 16, 18)

Stamps == {IntStamp(StartTime), TestDate, BadStamp}
Interfaces == {"", "wan", "lan"}
MACs == {GoodMAC, ShortMAC, LongMAC, NoMAC}

\* without " IN=" the line has no IN parameter
RawLines ==
    {Raw(pad, LogText(has_IN, has_kernel, stamp, IF has_IN THEN i ELSE "", o, mac)) :
        pad \in {0, 1}, has_IN \in BOOLEAN, has_kernel \in BOOLEAN, stamp \in Stamps,
        i \in Interfaces \ {"lan"}, o \in Interfaces, mac \in MACs}

\* the last second of the year in which the behaviour starts
NewYearsEve == DaysBeforeYear(YearOf(StartTime) + 1) * 86400 - 1

InitLine ==
    /\ config \in {c \in Configs : c.timeout = DEFAULT_TIMEOUT}
    /\ \E t \in {StartTime, NewYearsEve} : StartAt(t)
    /\ parser \in {[NoParse EXCEPT !.pc = "raw", !.raw = raw] : raw \in RawLines}

\* NetFilterLogLine(raw)
ParseLine ==
    /\ parser.pc = "raw"
    /\ parser' = [parser EXCEPT !.pc = "parsed",
                                !.first = NetFilterLogLine(parser.raw, now), !.at = now]
    /\ UNCHANGED <<config, ruleset, partial, now, is_file, file, tailer, pos, log_items,
                   invalid_log_items, policy_pc, rd, boot, db, disk, started, primary, alt,
                   h, hist>>

\* NetFilterLogLine(parsed.line), on the text the first parse kept
ReparseLine ==
    /\ parser.pc = "parsed"
    /\ parser.first.exc = "none"
    /\ parser' = [parser EXCEPT !.pc = "reparsed",
                                !.second = NetFilterLogLine(Raw(0, parser.first.line), now),
                                !.again = now]
    /\ UNCHANGED <<config, ruleset, partial, now, is_file, file, tailer, pos, log_items,
                   invalid_log_items, policy_pc, rd, boot, db, disk, started, primary, alt,
                   h, hist>>

NextLine == ParseLine \/ ReparseLine \/ Tick

SpecLine == InitLine /\ [][NextLine]_vars

----------------------------------------------------------------------------
(* Lines with the name of a flag in one or two words, each after a blank   *)
(* or after another character, and before a blank, another character or    *)
(* the end of the stripped line.                                           *)

FlagWords ==
    {Word(name, before, after) :
        name \in {"SYN", "DF"}, before \in {" ", "="}, after \in {" ", "end", "|", "$", "C"}}

\* the words of a text in order; the text ends in at most its last word
FlagTexts ==
    {<<w>> : w \in FlagWords}
      \cup {<<v, w>> : v \in {x \in FlagWords : x.after # "end"}, w \in FlagWords}

FlagLines ==
    {Raw(pad, [LogText(TRUE, TRUE, IntStamp(StartTime), "wan", "", GoodMAC)
                 EXCEPT !.words = words]) :
        pad \in {0, 1}, words \in FlagTexts}

InitFlags ==
    /\ config \in {c \in Configs : c.timeout = DEFAULT_TIMEOUT}
    /\ StartAt(StartTime)
    /\ parser \in {[NoParse EXCEPT !.pc = "raw", !.raw = raw] : raw \in FlagLines}

SpecFlags == InitFlags /\ [][NextLine]_vars

----------------------------------------------------------------------------
(* A log writer that appends a line in two writes: the text up to a cut,   *)
(* and later the rest with the newline.  f.readline() at the end of the    *)
(* file returns what is there, newline or not.                             *)

\* where the first write ends: before " IN=", or after the SRC= parameter
Cuts == {"before_IN", "after_SRC"}

\* the text up to the cut
HeadOf(body, cut) ==
    IF cut = "before_IN"
    THEN [body EXCEPT !.kind = "head", !.has_IN = FALSE, !.IN_ = "", !.OUT_ = "",
                      !.MAC = NoMAC, !.SRC = "", !.log_type = "", !.words = <<>>]
    ELSE [body EXCEPT !.kind = "head", !.words = <<>>]

\* the text after the cut: it has no " kernel: ", and no " IN=" (cut after
\* SRC=) or "IN=" at its start once stripped (cut before " IN=")
RestOf(body, cut) ==
    IF cut = "before_IN"
    THEN [body EXCEPT !.kind = "rest", !.has_IN = FALSE, !.has_kernel = FALSE]
    ELSE [body EXCEPT !.kind = "rest", !.has_IN = FALSE, !.has_kernel = FALSE,
                      !.IN_ = "", !.OUT_ = "", !.MAC = NoMAC, !.SRC = "", !.log_type = ""]

\* the first write of a line: the file ends without a newline
WriteFragment(r) ==
    /\ CanWrite
    /\ is_file[r]
    /\ \E k \in {x \in LineKinds : x[2] = "INBOUND"}, cut \in Cuts :
         LET body == Body("nft", hist.written + 1, now, k[1], k[2])
         IN  /\ file' = [file EXCEPT ![r] = Append(@, Raw(0, HeadOf(body, cut)))]
             /\ partial' = [partial EXCEPT ![r] = <<[body |-> body, cut |-> cut]>>]
    /\ hist' = [hist EXCEPT !.written = @ + 1, !.events = @ + 1, !.run.reread = FALSE]
    /\ UNCHANGED <<config, parser, ruleset, is_file, tailer, now, pos, log_items,
                   invalid_log_items, policy_pc, rd, boot, db, disk, started, primary, alt, h>>

\* the second write: if the reader has not read the first part, its next
\* readline() returns the whole line; if it has, the rest of the line
CompleteLine(r) ==
    /\ policy_pc = "sleep"
    /\ partial[r] # <<>>
    /\ LET p == Head(partial[r])
       IN  file' = [file EXCEPT ![r] =
                      IF pos[r] < Len(@)
                      THEN [@ EXCEPT ![Len(@)] = Raw(0, p.body)]
                      ELSE Append(@, Raw(0, RestOf(p.body, p.cut)))]
    /\ partial' = [partial EXCEPT ![r] = <<>>]
    /\ UNCHANGED <<config, parser, ruleset, is_file, tailer, now, pos, log_items,
                   invalid_log_items, policy_pc, rd, boot, db, disk, started, primary, alt,
                   h, hist>>

NextFragments ==
    \/ \E r \in Readers : WriteFragment(r)
    \/ \E r \in Readers : CompleteLine(r)
    \/ \E r \in Readers : watch_log_open(r)
    \/ \E r \in Readers : watch_log(r)
    \/ BootDone
    \/ process_log_queue
    \/ \E r \in Readers : handle_log_item(r)
    \/ nft_block
    \/ nft_blackhole
    \/ \E r \in Readers : drain_invalid(r)
    \/ drain_done

SpecFragments == InitParser /\ [][NextFragments]_vars

----------------------------------------------------------------------------
(* A start of the process on what an earlier run left: the log holds three *)
(* inbound drops of one address within the repeat period, the run timed    *)
(* the address out at the second and blocked it for good at the third,     *)
(* committed and ended; the host rebooted, the repeat period went by.      *)

Offender == "1.2.3.4"
EarlierLines ==
    [i \in 1..CONFIG_BAD_IP_THRESHOLD |->
        Raw(0, Body("nft", i, StartTime, Offender, "INBOUND"))]

\* insert_logline of the earlier run's lines, in order
RECURSIVE EarlierEvents(_)
EarlierEvents(n) ==
    IF n = 0 THEN create_table
    ELSE insert_logline(EarlierEvents(n - 1),
                        NetFilterLogLine(EarlierLines[n], StartTime)).db

\* the rows the earlier run committed
EarlierDB ==
    commit(insert_bad(insert_timeout(EarlierEvents(CONFIG_BAD_IP_THRESHOLD),
                                     Offender, StartTime),
                      Offender, StartTime))

InitAfterReboot ==
    /\ config \in Configs
    /\ now = StartTime + DEFAULT_REPEAT_PERIOD
    /\ is_file = [r \in Readers |-> TRUE]
    /\ tailer = [r \in Readers |-> "new"]
    /\ file = [r \in Readers |-> EarlierLines]
    /\ pos = [r \in Readers |-> 0]
    /\ log_items = [r \in Readers |-> <<>>]
    /\ invalid_log_items = [r \in Readers |-> <<>>]
    /\ policy_pc = "boot"
    /\ rd = 1
    /\ db = EarlierDB
    /\ disk = Tables(EarlierDB)
    /\ boot = get_bad_ips(EarlierDB)
    /\ started = FALSE
    /\ ruleset = RulesetOf(init_nftables(NoKernel))
    /\ primary = EmptySet
    /\ alt = EmptySet
    /\ partial = [r \in Readers |-> <<>>]
    /\ h = IdleFrame
    /\ hist = [run |-> ClearRun, written |-> CONFIG_BAD_IP_THRESHOLD,
               restarts |-> 0, events |-> 0]
    /\ parser = NoParse

SpecAfterReboot == InitAfterReboot /\ [][Next]_vars

----------------------------------------------------------------------------
(* A log with lines whose time stamp is a number of seconds written with   *)
(* fewer digits than the clock's (int(ts) takes any integer).              *)

OldStamp == StartTime \div 10

WriteOldLine(r) ==
    /\ CanWrite
    /\ is_file[r]
    /\ \E k \in LineKinds :
         file' = [file EXCEPT ![r] =
                    Append(@, Raw(0, Body("nft", hist.written + 1, OldStamp, k[1], k[2])))]
    /\ hist' = [hist EXCEPT !.written = @ + 1, !.events = @ + 1, !.run.reread = FALSE]
    /\ UNCHANGED <<config, parser, ruleset, partial, is_file, tailer, now, pos, log_items,
                   invalid_log_items, policy_pc, rd, boot, db, disk, started, primary, alt, h>>

NextOld ==
    \/ \E r \in Readers : WriteLine(r)
    \/ \E r \in Readers : WriteOldLine(r)
    \/ \E r \in Readers : watch_log_open(r)
    \/ \E r \in Readers : watch_log(r)
    \/ BootDone
    \/ process_log_queue
    \/ \E r \in Readers : handle_log_item(r)
    \/ nft_block
    \/ nft_blackhole
    \/ drain_done

SpecOld == Init /\ [][NextOld]_vars

----------------------------------------------------------------------------
(* Properties                                                              *)

Ended == h.status \in {"returned", "raised"}
NewEvent == Ended /\ h.branch # "exists"
Src == h.item.SRC
Fns == {h.calls[i].fn : i \in 1..Len(h.calls)}
RowsOf(table, ip) == {i \in 1..Len(table) : table[i].ip = ip}

\* C1: while blackhole() rotates an ip that was found in the primary set, in
\* every state after the add to dumpster_blackhole_alt (step 1) and before the
\* remove from dumpster_blackhole_alt (step 4) has run, the ip is a member of
\* dumpster_blackhole or of dumpster_blackhole_alt.
C1_RotationKeepsBlock ==
    (policy_pc = "rotate" /\ h.step > 1) => Src \in DOMAIN primary \cup DOMAIN alt

\* C1 witness: mid-rotation, the primary set has lost the ip and the alt set
\* holds it.
C1_Witness ==
    policy_pc = "rotate" /\ h.step = 3 /\ Src \notin DOMAIN primary /\ Src \in DOMAIN alt

\* C2 (as claimed): when time_out(ip, t) has returned, ip is in the primary set
\* with at least r + t seconds left, r being what it had left at the call (0
\* when absent); the seconds that passed during the call are credited.
C2_MonotonicExtension ==
    (h.status = "returned" /\ h.branch \in {"new", "extend"} /\ (h.pre_in => h.pre.timed))
    => /\ h.post_in
       /\ h.post.timed =>
            h.post.expires + (h.t1 - h.t0)
                >= (IF h.pre_in THEN h.pre.expires ELSE 0) + h.calls[1].arg

Handles(r) == policy_pc = "drain" /\ log_items[r] # <<>> /\ log_items'[r] = Tail(log_items[r])

\* C5: handle_log_item on an event whose hash is in the events table returns
\* in that step with no table and no firewall set changed and no call made.
C5_DuplicateIsNoOp ==
    [][\A r \in Readers :
        (Handles(r) /\ (\E i \in 1..Len(db.dumpster) :
                            db.dumpster[i].id = Head(log_items[r]).hash))
        => /\ Tables(db') = Tables(db)
           /\ primary' = primary /\ alt' = alt
           /\ h'.status = "returned" /\ h'.calls = <<>>
           /\ policy_pc' = "drain"]_vars

\* C5 witness: a repeated line was handled in the run that stored the first:
\* one row, nothing installed.
C5_Witness ==
    /\ h.status = "returned" /\ h.branch = "exists" /\ hist.restarts = 0
    /\ Cardinality({i \in 1..Len(db.dumpster) : db.dumpster[i].id = h.item.hash}) = 1
    /\ primary = EmptySet

\* C6: insert_logline raises LogLineExists and leaves the table as it was when
\* a row with the hash exists, and otherwise appends exactly one row; no two
\* rows share an id, and no two rows hold the same stripped text.
C6_InsertEvent ==
    /\ [](\A i, j \in 1..Len(db.dumpster) :
            (db.dumpster[i].id = db.dumpster[j].id
                \/ db.dumpster[i].line = db.dumpster[j].line) => i = j)
    /\ [][\A r \in Readers : Handles(r) =>
            LET e == Head(log_items[r]) IN
            IF \E i \in 1..Len(db.dumpster) : db.dumpster[i].id = e.hash
            THEN h'.branch = "exists" /\ db'.dumpster = db.dumpster
            ELSE /\ h'.branch # "exists"
                 /\ Len(db'.dumpster) = Len(db.dumpster) + 1
                 /\ SubSeq(db'.dumpster, 1, Len(db.dumpster)) = db.dumpster
                 /\ db'.dumpster[Len(db'.dumpster)].id = e.hash
                 /\ db'.dumpster[Len(db'.dumpster)].line = e.line]_vars

\* C6 witness: two raw lines that differ, equal once stripped, were both read;
\* the second was refused and one row holds the text.
C6_Witness ==
    /\ h.branch = "exists"
    /\ \E r \in Readers : \E i, j \in 1..pos[r] :
          /\ i < j
          /\ file[r][i] # file[r][j]
          /\ strip(file[r][i]) = strip(file[r][j])
          /\ strip(file[r][j]) = h.item.line
    /\ Cardinality({i \in 1..Len(db.dumpster) : db.dumpster[i].line = h.item.line}) = 1

NoCallInProgress == policy_pc \in {"drain", "sleep", "raised", "stopped"}

C8_ExceptionStaysInside == ~(h.status = "raised" /\ policy_pc = "raised")

\* C9 (as claimed): when a handle_log_item call has ended, normally or by an
\* error, no rotation is left stopped between its steps and the source is not
\* left in the alt set.
C9_NoPartialUpdate ==
    Ended => /\ h.status = "raised" => h.step <= 1
             /\ Src \notin DOMAIN alt

\* C10: when the constructor is done, every ip of the bad table is a member of
\* the primary set; no event is handled before that.
C10_BootBlocksBadIps ==
    /\ [](policy_pc = "boot" => h.status = "idle")
    /\ [][(policy_pc = "boot" /\ policy_pc' = "sleep") =>
            \A i \in 1..Len(db'.bad) : db'.bad[i].ip \in DOMAIN primary']_vars

\* C10 witness: after a restart on a rebooted host the constructor is done and
\* the bad ip is in the primary set with no expiry.
C10_Witness ==
    /\ policy_pc = "sleep" /\ hist.restarts = 1 /\ h.status = "idle"
    /\ db.bad # <<>>
    /\ \A i \in 1..Len(db.bad) :
          db.bad[i].ip \in DOMAIN primary /\ primary[db.bad[i].ip] = NoExpiry

\* C11 (as claimed): an ip that handle_log_item has promoted in this run (its
\* block call returned and the ip has its row in bad) is a member of the
\* primary set with no expiry, in that state and in every later state of the
\* run.
C11_PermanentBlock ==
    \A ip \in hist.run.block_done :
        is_bad(db, ip) => ip \in DOMAIN primary /\ ~primary[ip].timed

\* the text of line i of reader r's file, stripped
Text(r, i) == strip(file[r][i])
InSeq(x, q) == \E j \in 1..Len(q) : q[j] = x

\* C12 (as claimed): for every line the reader has read that has one of the
\* six defects, the reader goes on reading and the line's text is on its
\* parse-failure queue or was taken off it by a drain pass; once the policy
\* task sleeps with that queue empty the text is a row of invalid; and it
\* never is a row of events.
C12_RejectedLineArchived ==
    \A r \in Readers : \A i \in 1..pos[r] :
        Text(r, i).kind \in Defects =>
            /\ tailer[r] = "open"
            /\ InSeq(Text(r, i), invalid_log_items[r]) \/ InSeq(Text(r, i), hist.run.archived[r])
            /\ (policy_pc = "sleep" /\ invalid_log_items[r] = <<>>) =>
                    \E k \in 1..Len(db.invalid) : db.invalid[k].logline = Text(r, i)
            /\ \A k \in 1..Len(db.dumpster) : db.dumpster[k].line # Text(r, i)

\* A step in which process_log_queue takes a line off a parse-failure queue
Archives(r) ==
    /\ policy_pc = "drain" /\ invalid_log_items[r] # <<>>
    /\ invalid_log_items'[r] = Tail(invalid_log_items[r])

\* C13 (as claimed): insert_invalid on a line that has its row in invalid
\* returns without raising and leaves the table as it was: the drain pass
\* goes on.
C13_RepeatedInvalidAbsorbed ==
    [][\A r \in Readers :
        (Archives(r) /\ (\E k \in 1..Len(db.invalid) :
                            db.invalid[k].logline = Head(invalid_log_items[r])))
        => policy_pc' = "drain" /\ db'.invalid = db.invalid]_vars

\* C14 (as claimed): in a run that re-reads from byte 0 files all of whose
\* lines an earlier run handled and committed, no step adds a row to a table,
\* no reader task and no drain pass ends with an error, and handle_log_item
\* makes no firewall call.
C14_RereadAddsNothing ==
    [][(hist.run.reread /\ hist'.run.reread) =>
          /\ Tables(db') = Tables(db) /\ disk' = disk
          /\ policy_pc = "drain" => policy_pc' # "raised"
          /\ \A r \in Readers : tailer'[r] \in {"new", "open", "cancelled"}
          /\ hist'.run.time_out_invoked = {} /\ hist'.run.block_invoked = {}]_vars

IsEvent(line) == line.kind = "nft"
IsRejected(line) == line.kind \in Defects
\* the stripped lines reader r has read, in file order
ReadSoFar(r) == [i \in 1..pos[r] |-> Text(r, i)]
Lines(q) == [j \in 1..Len(q) |-> q[j].line]

\* C15 (as claimed): for each reader, the events the policy task has taken,
\* followed by those still queued, are the parsed lines the reader has read, in
\* file order, each once; and the rejected lines it has read are, each once,
\* taken or queued: no non-blank line read is lost or delivered twice, and a
\* blank line leaves no item.
C15_FileOrderExactlyOnce ==
    \A r \in Readers :
        /\ hist.run.handled[r] \o Lines(log_items[r]) = SelectSeq(ReadSoFar(r), IsEvent)
        /\ hist.run.archived[r] \o invalid_log_items[r] = SelectSeq(ReadSoFar(r), IsRejected)

\* the number of non-blank lines among the first i of reader r's file
NonBlank(r, i) == Cardinality({j \in 1..i : Text(r, j) # BlankBody})
\* line i of reader r's file is there and is not blank
Appended(r, i) == i <= Len(file[r]) /\ Text(r, i) # BlankBody
\* a drain pass has taken line i of reader r's file off a queue
Consumed(r, i) ==
    /\ i <= Len(file[r])
    /\ Len(hist.run.handled[r]) + Len(hist.run.archived[r]) >= NonBlank(r, i)

\* C16 (as claimed): under fair scheduling of the reader tasks and the policy
\* task, every non-blank line appended to a watched file is eventually taken
\* by a drain pass.
C16_EveryLineConsumed ==
    \A r \in Range(LOG_FILES) : \A i \in 1..MaxEvents :
        Appended(r, i) ~> Consumed(r, i)

\* C17 (as claimed): when the process has stopped on a stop signal, every
\* reader task has ended, no item is left on a queue, and nothing is left
\* uncommitted.
C17_StopDrainsAndCommits ==
    policy_pc = "stopped" =>
        /\ \A r \in Readers :
              /\ tailer[r] \notin {"new", "open"}
              /\ log_items[r] = <<>> /\ invalid_log_items[r] = <<>>
        /\ ~db.uncommitted_writes /\ Tables(db) = disk

\* C18 (as claimed): when a reader task has ended because its log file is
\* missing, the process has ended: the policy loop does not go on without
\* that reader.
C18_MissingFileIsFatal ==
    \A r \in Readers : tailer[r] = "FileNotFoundError" => policy_pc = "raised"

\* C19 (as claimed): the tables differ from what is committed only while
\* uncommitted_writes is set, and no uncommitted write is left when a drain
\* pass has ended, that is whenever the policy task is not inside one.
C19_DirtyFlagAndCommit ==
    /\ Tables(db) # disk => db.uncommitted_writes
    /\ policy_pc \notin {"drain", "block", "blackhole", "rotate"} =>
            ~db.uncommitted_writes /\ Tables(db) = disk

\* every line of every file is read and handled: the readers are at the end
\* of their files, the queues are empty and the policy task sleeps
AllLinesHandled ==
    /\ policy_pc = "sleep"
    /\ \A r \in Readers :
          /\ tailer[r] = "open" /\ pos[r] = Len(file[r])
          /\ log_items[r] = <<>> /\ invalid_log_items[r] = <<>>

\* the hashes of the parsed lines of all files
EventHashes ==
    {sha256(Text(r, i)) : <<r, i>> \in {<<r, i>> \in Readers \X (1..MaxEvents) :
                                            i <= Len(file[r]) /\ IsEvent(Text(r, i))}}

\* C20: when the lines of several readers are all handled, in whatever order
\* they were written and drained, the events table holds exactly one row for
\* each distinct hash of a parsed line and no other row, and a row holds what
\* its line says, whichever reader delivered the line first.
C20_OneRowPerHash ==
    AllLinesHandled =>
        /\ {db.dumpster[k].id : k \in 1..Len(db.dumpster)} = EventHashes
        /\ Len(db.dumpster) = Cardinality(EventHashes)
        /\ \A k \in 1..Len(db.dumpster) :
              LET row == db.dumpster[k] IN
              /\ row.id = sha256(row.line)
              /\ row.src = row.line.SRC /\ row.direction = row.line.log_type
              /\ row.timestamp = row.line.ts

\* C20 witness: the second reader delivered a line first and the first reader
\* delivered the same text later, next to a line of its own: two rows.
C20_Witness ==
    /\ AllLinesHandled /\ Cardinality(Readers) = 2
    /\ h.branch = "exists" /\ InSeq(h.item.line, hist.run.handled["wan"])
    /\ hist.run.handled["lan"] # <<>> /\ hist.run.handled["lan"][1] = h.item.line
    /\ Len(hist.run.handled["wan"]) = 2
    /\ Len(db.dumpster) = 2

----------------------------------------------------------------------------
(* The tables only grow *)

PrefixOf(s, t) == Len(s) <= Len(t) /\ SubSeq(t, 1, Len(s)) = s
RowTables == {"dumpster", "timeout", "bad"}
ProcessEnds == hist'.restarts # hist.restarts

\* C24: No operation deletes or modifies a row of the tables dumpster (the
\* events), timeout or bad.  In every step of a run each of the three tables,
\* as the connection sees it, keeps its rows and their order and at most gains
\* rows at the end, and so does the committed file in every step of every
\* run, the end of the process included (where only rows never committed are
\* dropped with the connection).
C24_RowsOnlyGrow ==
    [][\A T \in RowTables :
          /\ PrefixOf(disk[T], disk'[T])
          /\ ~ProcessEnds => PrefixOf(db[T], db'[T])]_vars

\* a committed table of two rows gains a third
C24_Witness ==
    \E T \in RowTables : Len(disk[T]) >= 2 /\ Len(db[T]) > Len(disk[T])

----------------------------------------------------------------------------
(* The rotation, step by step *)

----------------------------------------------------------------------------
(* The timeout table and the primary set *)

\* C26 (as claimed): in every state, an ip with a row in the timeout table is
\* a member of the primary set.
C26_RowMeansBlocked ==
    \A ip \in IPs : is_timed_out(db, ip) => ip \in DOMAIN primary

\* C26: the row of an ip enters the timeout table only in a step that leaves
\* the ip a member of the primary set, with a timed element; the row says
\* that the ip was timed out then (it stays when the element expires).
C26_RowMarksTimeOut ==
    [][\A ip \in IPs :
          (~is_timed_out(db, ip) /\ is_timed_out(db', ip))
              => ip \in DOMAIN primary' /\ primary'[ip].timed]_vars

\* the row of a timed-out ip has been committed and the ip is still blocked
C26_Witness ==
    \E ip \in IPs :
        /\ \E i \in 1..Len(disk.timeout) : disk.timeout[i].ip = ip
        /\ ip \in DOMAIN primary /\ primary[ip].timed

----------------------------------------------------------------------------
(* scan_directions *)

Calls(fn) == \E i \in 1..Len(h.calls) : h.calls[i].fn = fn
Scanned == h.item.log_type \in config.scan_directions

\* C27 (as claimed): time_out is invoked only for events whose direction is
\* in scan_directions, whatever the timeout table holds.
C27_OnlyScannedDirections == Calls("time_out") => Scanned

\* C27: for an event whose direction is not in scan_directions, time_out is
\* invoked only when the source has a row in the timeout table already (the
\* call extends its block); such an event never gives a source its row.
C27_OnlyScannedInstall ==
    /\ Calls("time_out") => Scanned \/ h.was_timed_out
    /\ Calls("insert_timeout") => Scanned

\* a source without row repeats in a direction that is not scanned: no call
C27_Witness ==
    /\ h.status = "returned" /\ h.branch = "allow" /\ ~Scanned /\ ~h.was_timed_out
    /\ h.n >= config.repeat_count /\ h.calls = <<>>

----------------------------------------------------------------------------
(* The branches that install nothing new *)

\* C29: a new event from a source that has a row in the timeout table, with n
\* below the bad-ip threshold, leads to exactly one call, time_out(src,
\* timeout), whatever n and the direction are, and no step of the call adds a
\* row to the timeout or the bad table.
C29_ExtendOnly ==
    [][(h'.status # "idle" /\ h'.branch # "exists" /\ h'.was_timed_out
            /\ h'.n < config.bad_ip_threshold)
        => /\ h'.calls = <<Call("time_out", h'.item.SRC, config.timeout)>>
           /\ db'.timeout = db.timeout /\ db'.bad = db.bad]_vars

\* a single drop within the period, from a source with a row: the block was
\* extended and the call returned
C29_Witness ==
    /\ h.status = "returned" /\ h.branch = "extend" /\ h.was_timed_out
    /\ h.n < config.repeat_count
    /\ h.calls = <<Call("time_out", Src, config.timeout)>>
    /\ Cardinality(RowsOf(db.timeout, Src)) = 1 /\ ~is_bad(db, Src)

\* C30: a new event from a source without row in the timeout table, with n
\* below the bad-ip threshold, and with n below repeat_count or a direction
\* that is not scanned: the handler returns in that step having appended the
\* event's row and nothing else; no firewall call is made, and the timeout and
\* bad tables and both kernel sets are as before.
C30_NoAction ==
    [][\A r \in Readers :
        (/\ Handles(r) /\ h'.branch # "exists" /\ ~h'.was_timed_out
         /\ h'.n < config.bad_ip_threshold
         /\ h'.n < config.repeat_count \/ h'.item.log_type \notin config.scan_directions)
        => /\ h'.status = "returned" /\ h'.calls = <<>> /\ policy_pc' = "drain"
           /\ Len(db'.dumpster) = Len(db.dumpster) + 1
           /\ PrefixOf(db.dumpster, db'.dumpster)
           /\ db'.dumpster[Len(db'.dumpster)].id = Head(log_items[r]).hash
           /\ db'.timeout = db.timeout /\ db'.bad = db.bad /\ db'.invalid = db.invalid
           /\ primary' = primary /\ alt' = alt]_vars

\* the first drop of a source in a scanned direction: one row, no call
C30_Witness ==
    /\ h.status = "returned" /\ h.branch = "allow" /\ Scanned
    /\ h.n = 1 /\ h.n < config.repeat_count /\ h.calls = <<>>
    /\ \E i \in 1..Len(db.dumpster) : db.dumpster[i].id = h.item.hash
    /\ ~is_timed_out(db, Src) /\ ~is_bad(db, Src)
    /\ Src \notin DOMAIN primary \cup DOMAIN alt

----------------------------------------------------------------------------
(* The parser's record *)

Parsed == parser.pc \in {"parsed", "reparsed"}
Accepted == Parsed /\ parser.first.exc = "none"
Given == strip(parser.raw)

\* C21: for every accepted line, IN without OUT gives INBOUND, OUT without IN
\* gives OUTBOUND, and IN and OUT both there and different give FORWARD; a
\* line with IN and OUT equal and not empty is rejected with the parse error
\* (BadNFTLineError), and so is a line with neither.
C21_DirectionByInterfaces ==
    /\ Accepted =>
          /\ (Given.IN_ # "" /\ Given.OUT_ = "") => parser.first.log_type = "INBOUND"
          /\ (Given.OUT_ # "" /\ Given.IN_ = "") => parser.first.log_type = "OUTBOUND"
          /\ (Given.IN_ # "" /\ Given.OUT_ # "" /\ Given.IN_ # Given.OUT_)
                => parser.first.log_type = "FORWARD"
    /\ (Parsed /\ Given.IN_ = Given.OUT_) => parser.first.exc = "BadNFTLineError"

\* C22: for every raw line that parses, parsing the text the record kept
\* gives a record equal to the first in every field, the hash included.
C22_ReparseIsEqual == parser.pc = "reparsed" => parser.second = parser.first

\* C23: for every accepted line, dst_mac is the first six bytes of the MAC
\* field and src_mac is bytes 7 to 12 (the claim on accepted lines; a MAC
\* field without two addresses is C12's matter).
C23_MacOrder ==
    Accepted => /\ parser.first.dst_mac = SubSeq(Given.MAC, 1, 6)
                /\ parser.first.src_mac = SubSeq(Given.MAC, 7, 12)

\* time.gmtime(t), as the text "Mmm DD HH:MM:SS" of a syslog line
strftime(t) ==
    LET y == YearOf(t)
        secs == t - DaysBeforeYear(y) * 86400
        yday == secs \div 86400
        mon == CHOOSE m \in 1..12 :
                   /\ DaysBeforeMonth(y, m) <= yday
                   /\ m = 12 \/ yday < DaysBeforeMonth(y, m + 1)
    IN  DateStamp(mon, yday - DaysBeforeMonth(y, mon) + 1,
                  (secs % 86400) \div 3600, (secs % 3600) \div 60, secs % 60)

DateLine == Accepted /\ Given.stamp.form = "date"

----------------------------------------------------------------------------
(* Errors of the firewall calls *)

\* C31: no time_out and no block call ends by raising NFTSetItemExists to
\* handle_log_item, whatever the two sets hold: the one raised by the first
\* add is caught and starts the rotation, and no command of the rotation
\* raises it.
C31_SetItemExistsStaysInside ==
    /\ h.exc # "NFTSetItemExists"
    /\ h.status = "raised" => h.exc \in {"NFTError", "TypeError"}

\* the first add found the ip, the rotation ran to its end and time_out returned
C31_Witness ==
    /\ h.status = "returned" /\ h.step = 4 /\ h.exc = "none"
    /\ h.pre_in /\ h.post_in /\ Src \notin DOMAIN alt

\* C36 (as claimed): whenever no time_out call is in progress, also after one
\* that ended with an error in the middle of its rotation, the rotation
\* buffer dumpster_blackhole_alt holds no ip.
C36_AltEmptyWhenIdle == NoCallInProgress => DOMAIN alt = {}

\* C37 (as claimed): a time_out on an ip that is in the primary set with no
\* expiry, none of whose commands the kernel refuses, returns without error
\* and leaves the ip in the primary set with no expiry.
C37_PermanentSurvivesTimeOut ==
    ( /\ NoCallInProgress /\ Ended
      /\ h.calls # <<>> /\ Head(h.calls).fn = "time_out"
      /\ h.pre_in /\ ~h.pre.timed
      /\ h.exc # "NFTError" )
    => /\ h.status = "returned"
       /\ Src \in DOMAIN primary /\ ~primary[Src].timed

\* C38: in handle_log_item the firewall call comes before the store insert: a
\* step that adds a timeout row for ip is the return of a call in which
\* time_out(ip) came back without error, a step that adds a bad row for ip the
\* return of a call in which block(ip) did, and the ip is then in the primary
\* set; no step that ends a call with an exception adds a row.
C38_FirewallBeforeRow ==
    [][ \A ip \in IPs :
          /\ Cardinality(RowsOf(db'.timeout, ip)) > Cardinality(RowsOf(db.timeout, ip))
               => /\ policy_pc = "blackhole" \/ policy_pc = "rotate"
                  /\ h'.status = "returned" /\ h'.exc = "none" /\ h'.item.SRC = ip
                  /\ h'.calls = <<Call("time_out", ip, config.timeout),
                                  Call("insert_timeout", ip, 0)>>
                  /\ ip \in hist'.run.time_out_done
                  /\ ip \in DOMAIN primary'
          /\ Cardinality(RowsOf(db'.bad, ip)) > Cardinality(RowsOf(db.bad, ip))
               => /\ policy_pc = "block"
                  /\ h'.status = "returned" /\ h'.exc = "none" /\ h'.item.SRC = ip
                  /\ h'.calls = <<Call("block", ip, 0), Call("insert_bad", ip, 0)>>
                  /\ ip \in hist'.run.block_done
                  /\ ip \in DOMAIN primary' ]_vars

\* one run wrote a timeout row after its time_out and a bad row after its block
C38_Witness ==
    /\ h.status = "returned" /\ h.calls # <<>> /\ h.calls[Len(h.calls)].fn = "insert_bad"
    /\ RowsOf(db.bad, Src) # {} /\ Src \in hist.run.block_done
    /\ \E ip \in hist.run.time_out_done : RowsOf(db.timeout, ip) # {}

\* The two sets of the table, with the element timeout each was created with
KernelSets == {[set |-> primary, dflt |-> PrimaryDefault], [set |-> alt, dflt |-> AltDefault]}
\* The timeouts blackhole() passes: none, or remaining seconds plus 15 minutes
GivenTimeouts ==
    {NoTimeout} \cup {Timeout(primary[ip].expires + BLACKHOLE_EXTENSION) :
                        ip \in {x \in DOMAIN primary : primary[x].timed}}

\* C32: on the sets as they are in any reachable state, add_to_set of a member
\* with exist_ok false raises NFTSetItemExists carrying the member's remaining
\* seconds and leaves the set as it is; with exist_ok true it returns and
\* leaves the set, and so the member's timeout, as it is; add_to_set of an ip
\* that is not a member adds it with the timeout given (the set's own element
\* timeout when none is given) and changes no other element.
C32_AddToSet ==
    \A K \in KernelSets : \A ip \in IPs : \A t \in GivenTimeouts :
       LET raised == add_to_set(K.set, K.dflt, ip, t, FALSE)
           kept == add_to_set(K.set, K.dflt, ip, t, TRUE)
       IN  IF ip \in DOMAIN K.set
           THEN /\ raised.exc = "NFTSetItemExists"
                /\ raised.expires = K.set[ip]
                /\ raised.set = K.set
                /\ kept.exc = "none"
                /\ kept.set = K.set
           ELSE /\ raised = kept
                /\ kept.exc = "none"
                /\ DOMAIN kept.set = DOMAIN K.set \cup {ip}
                /\ kept.set[ip] = IF t.given THEN Timed(t.secs) ELSE K.dflt
                /\ \A x \in DOMAIN K.set : kept.set[x] = K.set[x]

\* the first add of a time_out found its ip in the primary set and raised, the
\* rotation's add with exist_ok put it in alt, and the other ip is in neither
C32_Witness ==
    /\ policy_pc = "rotate" /\ h.step = 2
    /\ Src \in DOMAIN primary /\ h.expires = primary[Src] /\ h.expires.timed
    /\ Src \in DOMAIN alt
    /\ \E ip \in IPs : ip \notin DOMAIN primary /\ ip \notin DOMAIN alt

\* C33: in every reachable state of the kernel (the table, the chain, the
\* sets and the rules exist, whatever the members of the sets), running
\* init_nftables once or twice more changes nothing: the table dumpster holds
\* exactly one input chain, the two sets and exactly one drop rule per set,
\* and the sets keep their members.
C33_InitIsIdempotent ==
    LET once == init_nftables(Kernel)
        twice == init_nftables(once)
        DropRules(K, n) == {i \in 1..Len(K.rules) :
                              K.rules[i].chain = "input" /\ K.rules[i].expr = DropRule(n)}
    IN  /\ once = Kernel /\ twice = Kernel
        /\ \A K \in {Kernel, once, twice} :
              /\ K.tables = {"dumpster"}
              /\ K.chains = <<"input">>
              /\ DOMAIN K.sets = {"dumpster_blackhole", "dumpster_blackhole_alt"}
              /\ Len(K.rules) = 2
              /\ \A n \in DOMAIN K.sets : Cardinality(DropRules(K, n)) = 1
              /\ K.sets["dumpster_blackhole"] = primary
              /\ K.sets["dumpster_blackhole_alt"] = alt

\* the process was started again on a kernel that kept its sets: a timed
\* member of the primary set is there when the constructor has run init_nftables
C33_Witness ==
    /\ hist.restarts > 0 /\ policy_pc = "boot" /\ h = IdleFrame
    /\ \E ip \in DOMAIN primary : primary[ip].timed

\* C34 (as claimed): get_from_ip(ip, max_age) returns exactly the stored events
\* whose src is ip and whose timestamp is greater than now - max_age, for the
\* default of 300 seconds and for the configured repeat period.
C34_RecentFrom ==
    \A ip \in IPs : \A max_age \in {DEFAULT_REPEAT_PERIOD, config.repeat_period} :
        get_from_ip(db, ip, max_age, now)
          = {i \in 1..Len(db.dumpster) :
                /\ db.dumpster[i].src = ip
                /\ db.dumpster[i].timestamp > now - max_age}

\* C35 (as claimed): for each name in NF_FLAGS, the flag of the parsed record
\* is true if and only if the name is a word of the stripped line with white
\* space before it and white space or the end of the line after it.
C35_FlagIffBareword ==
    (parser.pc \in {"parsed", "reparsed"} /\ parser.first.exc = "none")
    => \A flag \in NF_FLAGS :
          flag \in parser.first.flags
            <=> \E i \in 1..Len(parser.first.line.words) :
                   /\ parser.first.line.words[i].name = flag
                   /\ parser.first.line.words[i].before = " "
                   /\ parser.first.line.words[i].after \in {" ", "end"}

\* C39 (as claimed): the tailer delivers complete lines only: no item of
\* log_items and no entry of invalid_log_items is the parse of the first part
\* of a line whose newline was not yet written, or of the rest of such a line.
C39_OnlyCompleteLines ==
    \A r \in Readers :
        /\ \A i \in 1..Len(log_items[r]) : log_items[r][i].line.kind \notin {"head", "rest"}
        /\ \A i \in 1..Len(invalid_log_items[r]) :
              invalid_log_items[r][i].kind \notin {"head", "rest"}

====
